---- MODULE Spec2Model ----
(***************************************************************************)
(* Model of server/index.js: the start-up sequence of the gateway          *)
(* (environment validation, construction of the two external clients,      *)
(* app.listen) and its five route handlers.  A handler that awaits an      *)
(* external call is split at the await: the part up to the call is one     *)
(* step, the continuation after the promise settles is another, so that    *)
(* handlers of different requests interleave exactly where node lets them. *)
(***************************************************************************)
EXTENDS Integers, Sequences, FiniteSets, TLC

\* ---------------------------------------------------------------- bounds

\* Number of requests the model lets arrive (each is one slot of reqs).
MaxReq == 2

\* ------------------------------------------------------- program constants

\* process.env.PORT || 3001
DefaultPort == 3001

\* README.md: "PORT: Server port (default: 3002)"
DocumentedPort == 3002

\* JavaScript undefined: an environment variable that is not set, a body
\* field that is absent, a response field that is not sent.
UNDEF == "<undefined>"

\* A handle that has not been constructed (let supabase; let model;).
NULL == "<null>"

requiredEnvVars == {"SUPABASE_URL", "SUPABASE_SERVICE_ROLE_KEY", "GOOGLE_GEMINI_API_KEY"}

placeholderValues ==
    { "your_supabase_url_here",
      "your_supabase_anon_key_here",
      "your_supabase_service_role_key_here",
      "your_google_gemini_api_key_here" }

\* getGenerativeModel({ model: "gemini-pro" })
ModelName == "gemini-pro"

\* ------------------------------------------------------------ input sets

\* Values an environment variable of the required set may hold.
EnvValues == {UNDEF, "", "configured-value"} \cup placeholderValues

\* Values of process.env.PORT: not set, set to the empty string, set.
PortValues == {UNDEF, "", "8080"}

\* The port number a non-empty PORT string denotes (net.Server.listen
\* converts a numeric string to the number).
PortNumber(v) == CASE v = "8080" -> 8080

Environments ==
    [ SUPABASE_URL : EnvValues,
      SUPABASE_SERVICE_ROLE_KEY : EnvValues,
      GOOGLE_GEMINI_API_KEY : EnvValues,
      PORT : PortValues ]

\* JSON bodies: every field is either absent (UNDEF) or a string.
CodeValues == {UNDEF, "", "x=1"}
LanguageValues == {UNDEF, "python"}
PromptValues == {UNDEF, "", "hi"}

NoBody == [code |-> UNDEF, language |-> UNDEF, prompt |-> UNDEF]

ReviewBodies == {[NoBody EXCEPT !.code = c, !.language = l] : c \in CodeValues, l \in LanguageValues}

GeminiBodies == {[NoBody EXCEPT !.prompt = p] : p \in PromptValues}

\* Outcomes of an external call, as the awaiting handler sees them.
NoOutcome == [kind |-> "none", text |-> UNDEF, message |-> UNDEF]

\* model.generateContent(prompt): resolves and response.text() returns a
\* text (possibly empty), or the promise rejects, or response.text() throws.
GenOutcomes ==
    { [NoOutcome EXCEPT !.kind = "text", !.text = t] : t \in {"", "LGTM"} }
    \cup { [NoOutcome EXCEPT !.kind = "rejected", !.message = "quota exceeded"],
           [NoOutcome EXCEPT !.kind = "text_throws", !.message = "response blocked"] }

\* supabase.from('test').select('*').limit(1): resolves with data, resolves
\* with an error object, or rejects.
DbOutcomes ==
    { [NoOutcome EXCEPT !.kind = "data", !.text = "[]"],
      [NoOutcome EXCEPT !.kind = "error", !.message = "relation test does not exist"],
      [NoOutcome EXCEPT !.kind = "rejected", !.message = "fetch failed"] }

\* Values new Date().toISOString() may produce when a response is built.
Times == {"2026-01-01T00:00:00.000Z", "2026-01-01T00:00:01.000Z"}

\* ----------------------------------------------------------------- state

VARIABLES
    env,        \* process.env after dotenv.config()
    phase,      \* position of the module's top-level code
    exitCode,   \* argument of process.exit, -1 while the process runs
    supabase,   \* let supabase
    model,      \* let model
    listenPort, \* port bound by app.listen, 0 while none is bound
    startupLog, \* console lines of the client initialisation and of listen
    reqs,       \* the requests: route, body, handler position, response
    failed      \* some handler has answered 500 so far

vars == <<env, phase, exitCode, supabase, model, listenPort, startupLog, reqs, failed>>

ReqIds == 1..MaxReq

\* ------------------------------------------------------------- responses

\* A response: the HTTP status code and the fields of the JSON payload.
\* code = 0 while nothing has been sent.
NoResponse ==
    [ code |-> 0, status |-> UNDEF, message |-> UNDEF, error |-> UNDEF,
      data |-> UNDEF, supabase |-> UNDEF, gemini |-> UNDEF, prompt |-> UNDEF,
      response |-> UNDEF, success |-> UNDEF, review |-> UNDEF,
      language |-> UNDEF, timestamp |-> UNDEF ]

NoRequest ==
    [ route |-> "none", body |-> NoBody, pc |-> "none", calls |-> <<>>,
      dbCalls |-> 0, outcome |-> NoOutcome, response |-> NoResponse,
      sent |-> 0, afterFail |-> FALSE ]

\* --------------------------------------------------------------- start-up

\* Variant of Invalid: the placeholder list is not consulted (!value alone).
InvalidNoPlaceholders(value) == value = UNDEF \/ value = ""

\* !value || placeholderValues.includes(value)
Invalid(value) == value = UNDEF \/ value = "" \/ value \in placeholderValues

\* requiredEnvVars.filter(...)
missingEnvVars(e) == {k \in requiredEnvVars : Invalid(e[k])}

\* process.env.PORT || 3001
PORT(e) == IF e.PORT = UNDEF \/ e.PORT = "" THEN DefaultPort ELSE PortNumber(e.PORT)

Init ==
    /\ env \in Environments
    /\ phase = "validate"
    /\ exitCode = -1
    /\ supabase = NULL
    /\ model = NULL
    /\ listenPort = 0
    /\ startupLog = <<>>
    /\ reqs = [r \in ReqIds |-> NoRequest]
    /\ failed = FALSE

\* if (missingEnvVars.length > 0) { ...; process.exit(1); }
Validate ==
    /\ phase = "validate"
    /\ IF missingEnvVars(env) # {}
         THEN /\ phase' = "exited"
              /\ exitCode' = 1
         ELSE /\ phase' = "init_supabase"
              /\ UNCHANGED exitCode
    /\ UNCHANGED <<env, supabase, model, listenPort, startupLog, reqs, failed>>

\* try { supabase = createClient(url, key) } catch { process.exit(1) }
InitSupabase ==
    /\ phase = "init_supabase"
    /\ \E throws \in BOOLEAN :
         IF throws
           THEN /\ phase' = "exited"
                /\ exitCode' = 1
                /\ startupLog' = Append(startupLog, "Failed to initialize Supabase client")
                /\ UNCHANGED supabase
           ELSE /\ supabase' = <<env.SUPABASE_URL, env.SUPABASE_SERVICE_ROLE_KEY>>
                /\ phase' = "init_gemini"
                /\ startupLog' = Append(startupLog, "Supabase client initialized successfully")
                /\ UNCHANGED exitCode
    /\ UNCHANGED <<env, model, listenPort, reqs, failed>>

\* Variant of GeminiInitFailed: the catch block logs and does not exit.
GeminiInitFailedContinues ==
    /\ phase' = "listen"
    /\ UNCHANGED exitCode
    /\ startupLog' = Append(startupLog, "Failed to initialize Google Gemini AI")
    /\ UNCHANGED model

\* catch (error) { console.error(...); process.exit(1); } of the Gemini
\* initialisation.
GeminiInitFailed ==
    /\ phase' = "exited"
    /\ exitCode' = 1
    /\ startupLog' = Append(startupLog, "Failed to initialize Google Gemini AI")
    /\ UNCHANGED model

\* try { genAI = new GoogleGenerativeAI(key); model = genAI.getGenerativeModel(...) }
InitGemini ==
    /\ phase = "init_gemini"
    /\ \E throws \in BOOLEAN :
         IF throws
           THEN GeminiInitFailed
           ELSE /\ model' = <<env.GOOGLE_GEMINI_API_KEY, ModelName>>
                /\ phase' = "listen"
                /\ startupLog' = Append(startupLog, "Google Gemini AI initialized successfully")
                /\ UNCHANGED exitCode
    /\ UNCHANGED <<env, supabase, listenPort, reqs, failed>>

\* app.listen(PORT, () => console.log(`Server running on port ${PORT}`))
Listen ==
    /\ phase = "listen"
    /\ phase' = "listening"
    /\ listenPort' = PORT(env)
    /\ startupLog' = Append(startupLog, "Server running")
    /\ UNCHANGED <<env, exitCode, supabase, model, reqs, failed>>

\* ---------------------------------------------------------------- routes

\* A request can be dispatched to a handler once the port is bound.  Slots
\* are taken in order, which only fixes the numbering of the requests.
CanArrive(r) ==
    /\ phase = "listening"
    /\ reqs[r].pc = "none"
    /\ r > 1 => reqs[r - 1].pc # "none"

\* The request as the handler first sees it.
Arrived(route, body) ==
    [NoRequest EXCEPT !.route = route, !.body = body, !.afterFail = failed]

\* res.json(payload) / res.status(code).json(payload): one response sent.
Send(req, resp) ==
    [req EXCEPT !.response = resp, !.sent = @ + 1, !.pc = "done"]

\* Variant of HandlerCaught: the error escapes the handler and ends the
\* process.
HandlerCaughtCrashes ==
    /\ phase' = "exited"
    /\ exitCode' = 1

\* What a handler's catch block does to the process: it answers and
\* returns, the process runs on.
HandlerCaught ==
    UNCHANGED <<phase, exitCode>>

\* The step of a handler that sends resp for request r (req is r's record
\* at that point).
Respond(r, req, resp) ==
    /\ reqs' = [reqs EXCEPT ![r] = Send(req, resp)]
    /\ failed' = (failed \/ resp.code = 500)
    /\ IF resp.code = 500 THEN HandlerCaught ELSE UNCHANGED <<phase, exitCode>>
    /\ UNCHANGED <<env, supabase, model, listenPort, startupLog>>

\* app.get('/health', ...).  The payload nests the two service fields under
\* "services"; the check-mark glyph of their value is left out.
HealthResponse ==
    [NoResponse EXCEPT !.code = 200, !.status = "OK", !.message = "Server is running",
                       !.supabase = "Connected", !.gemini = "Connected"]

Health(r) ==
    /\ CanArrive(r)
    /\ Respond(r, Arrived("/health", NoBody), HealthResponse)

\* app.get('/api/test', ...)
ApiTestResponse ==
    [NoResponse EXCEPT !.code = 200, !.message = "API is working!"]

ApiTest(r) ==
    /\ CanArrive(r)
    /\ Respond(r, Arrived("/api/test", NoBody), ApiTestResponse)

\* app.get('/api/supabase-test', ...): up to the await of the query.
SupabaseTest(r) ==
    /\ CanArrive(r)
    /\ supabase # NULL
    /\ reqs' = [reqs EXCEPT ![r] =
                  [Arrived("/api/supabase-test", NoBody) EXCEPT !.dbCalls = @ + 1, !.pc = "await"]]
    /\ UNCHANGED <<env, phase, exitCode, supabase, model, listenPort, startupLog, failed>>

\* Variant of SupabaseResponse: an error object is answered like a rejection.
SupabaseResponseErrorIs500(o) ==
    CASE o.kind = "data" ->
           [NoResponse EXCEPT !.code = 200, !.status = "connected",
                              !.message = "Supabase connected successfully", !.data = o.text]
      [] o.kind \in {"error", "rejected"} ->
           [NoResponse EXCEPT !.code = 500, !.status = "error",
                              !.message = "Supabase connection failed", !.error = o.message]

\* The three branches after the await: if (error), else, catch.
SupabaseResponse(o) ==
    CASE o.kind = "error" ->
           [NoResponse EXCEPT !.code = 200, !.status = "connected",
                              !.message = "Supabase connected (no test table found)",
                              !.error = o.message]
      [] o.kind = "data" ->
           [NoResponse EXCEPT !.code = 200, !.status = "connected",
                              !.message = "Supabase connected successfully", !.data = o.text]
      [] o.kind = "rejected" ->
           [NoResponse EXCEPT !.code = 500, !.status = "error",
                              !.message = "Supabase connection failed", !.error = o.message]

SupabaseSettle(r) ==
    /\ reqs[r].route = "/api/supabase-test"
    /\ reqs[r].pc = "await"
    /\ \E o \in DbOutcomes :
         Respond(r, [reqs[r] EXCEPT !.outcome = o], SupabaseResponse(o))

\* Variant of GeminiPrompt: the destructuring has no default.
GeminiPromptNoDefault(body) == body.prompt

\* const { prompt = "Hello, how are you?" } = req.body
GeminiPrompt(body) ==
    IF body.prompt = UNDEF THEN "Hello, how are you?" ELSE body.prompt

\* app.post('/api/gemini-test', ...): up to the await of generateContent.
\* A prompt is recorded as the sequence of the pieces it is made of.
GeminiTest(r) ==
    /\ CanArrive(r)
    /\ model # NULL
    /\ \E body \in GeminiBodies :
         reqs' = [reqs EXCEPT ![r] =
                    [Arrived("/api/gemini-test", body) EXCEPT
                        !.calls = Append(@, <<GeminiPrompt(body)>>), !.pc = "await"]]
    /\ UNCHANGED <<env, phase, exitCode, supabase, model, listenPort, startupLog, failed>>

\* res.json({status:'success', ...}) or the catch block's 500.
GeminiResponse(body, o) ==
    IF o.kind = "text"
      THEN [NoResponse EXCEPT !.code = 200, !.status = "success",
                              !.message = "Google Gemini AI working successfully",
                              !.prompt = GeminiPrompt(body), !.response = o.text]
      ELSE [NoResponse EXCEPT !.code = 500, !.status = "error",
                              !.message = "Google Gemini AI test failed",
                              !.error = o.message]

GeminiSettle(r) ==
    /\ reqs[r].route = "/api/gemini-test"
    /\ reqs[r].pc = "await"
    /\ \E o \in GenOutcomes :
         Respond(r, [reqs[r] EXCEPT !.outcome = o], GeminiResponse(reqs[r].body, o))

\* Variant of Falsy: only an absent field counts (code === undefined).
FalsyOnlyUndefined(v) == v = UNDEF

\* if (!code): an absent field and the empty string are falsy.
Falsy(v) == v = UNDEF \/ v = ""

\* Variant of Language: no default, the template prints "undefined".
LanguageNoDefault(body) ==
    IF body.language = UNDEF THEN "undefined" ELSE body.language

\* const { code, language = 'javascript' } = req.body
Language(body) ==
    IF body.language = UNDEF THEN "javascript" ELSE body.language

\* The code fence of the prompt template (three backquotes, a character a
\* string of this module cannot hold).
Fence == "~~~"

\* The fixed text that ends the prompt template.
PromptTail ==
    "\n\nPlease provide:\n1. Overall code quality assessment\n2. Potential bugs or issues\n3. Performance improvements\n4. Best practices suggestions\n5. Security considerations (if applicable)\n6. Code style and readability improvements\n\nFormat your response in a clear, structured way."

\* Variant of ReviewPrompt: the ${code} interpolation is missing.
ReviewPromptWithoutCode(language, code) ==
    << "Please review the following ", language,
       " code and provide constructive feedback:\n\nCode:\n", Fence, language, "\n",
       "\n", Fence, PromptTail >>

\* The template literal of the prompt: its fixed text and its interpolations.
ReviewPrompt(language, code) ==
    << "Please review the following ", language,
       " code and provide constructive feedback:\n\nCode:\n", Fence, language, "\n",
       code, "\n", Fence, PromptTail >>

BadRequest ==
    [NoResponse EXCEPT !.code = 400, !.error = "Code is required"]

\* app.post('/api/code-review', ...): the 400 answer, or up to the await of
\* generateContent.
CodeReview(r) ==
    /\ CanArrive(r)
    /\ model # NULL
    /\ \E body \in ReviewBodies :
         IF Falsy(body.code)
           THEN Respond(r, Arrived("/api/code-review", body), BadRequest)
           ELSE /\ reqs' = [reqs EXCEPT ![r] =
                              [Arrived("/api/code-review", body) EXCEPT
                                  !.calls = Append(@, ReviewPrompt(Language(body), body.code)),
                                  !.pc = "await"]]
                /\ UNCHANGED <<env, phase, exitCode, supabase, model, listenPort,
                               startupLog, failed>>

\* Variant of ReviewLanguage: language is a variable of the module, shared by
\* the invocations, and holds what the latest code-review request set.
OtherReviews(r) ==
    {q \in ReqIds : q # r /\ reqs[q].route = "/api/code-review" /\ reqs[q].pc # "none"}

SharedLanguage(r) ==
    IF OtherReviews(r) = {}
      THEN Language(reqs[r].body)
      ELSE Language(reqs[CHOOSE q \in OtherReviews(r) : \A p \in OtherReviews(r) : q >= p].body)

\* The language binding of request r's handler invocation (a const of the
\* invocation, so the one its own body gave).
ReviewLanguage(r) == Language(reqs[r].body)

\* res.json({success: true, review, language, timestamp}) or the catch
\* block's 500.
CodeReviewResponse(language, o, ts) ==
    IF o.kind = "text"
      THEN [NoResponse EXCEPT !.code = 200, !.success = "true", !.review = o.text,
                              !.language = language, !.timestamp = ts]
      ELSE [NoResponse EXCEPT !.code = 500, !.error = "Failed to generate code review",
                              !.message = o.message]

CodeReviewSettle(r) ==
    /\ reqs[r].route = "/api/code-review"
    /\ reqs[r].pc = "await"
    /\ \E o \in GenOutcomes, ts \in Times :
         Respond(r, [reqs[r] EXCEPT !.outcome = o], CodeReviewResponse(ReviewLanguage(r), o, ts))

\* ---------------------------------------------------------- specification

Next ==
    \/ Validate
    \/ InitSupabase
    \/ InitGemini
    \/ Listen
    \/ \E r \in ReqIds : Health(r)
    \/ \E r \in ReqIds : ApiTest(r)
    \/ \E r \in ReqIds : SupabaseTest(r)
    \/ \E r \in ReqIds : SupabaseSettle(r)
    \/ \E r \in ReqIds : GeminiTest(r)
    \/ \E r \in ReqIds : GeminiSettle(r)
    \/ \E r \in ReqIds : CodeReview(r)
    \/ \E r \in ReqIds : CodeReviewSettle(r)

Spec == Init /\ [][Next]_vars

\* ---------------------------------------------------------------- claims

Contains(seq, s) == \E i \in DOMAIN seq : seq[i] = s

Active(r) == reqs[r].pc # "none"

Done(r) == reqs[r].pc = "done"

IsReview(r) == reqs[r].route = "/api/code-review"

IsGemini(r) == reqs[r].route = "/api/gemini-test"

IsSupabase(r) == reqs[r].route = "/api/supabase-test"

\* Some required key is absent, empty or a placeholder.
BadConfig ==
    \E k \in requiredEnvVars : env[k] = UNDEF \/ env[k] = "" \/ env[k] \in placeholderValues

NothingServed == \A r \in ReqIds : ~Active(r) /\ reqs[r].sent = 0

\* C1: with a required key absent, empty or equal to a placeholder, the
\* process never gets past validation: it is still validating or has exited
\* with status 1, no port is bound, no client is constructed and no request
\* is handled.
C1_ConfigGate ==
    BadConfig =>
        /\ phase \in {"validate", "exited"}
        /\ phase = "exited" => exitCode = 1
        /\ exitCode \in {-1, 1}
        /\ listenPort = 0
        /\ supabase = NULL
        /\ model = NULL
        /\ NothingServed

C1_Witness ==
    /\ env.SUPABASE_URL = "configured-value"
    /\ env.SUPABASE_SERVICE_ROLE_KEY = "configured-value"
    /\ env.GOOGLE_GEMINI_API_KEY = "your_google_gemini_api_key_here"
    /\ phase = "exited"
    /\ exitCode = 1
    /\ listenPort = 0

\* C2 as stated: GET /api/supabase-test answers 200 with status "connected"
\* for every outcome of the data-store call, a rejection included.
C2_AlwaysConnected ==
    \A r \in ReqIds :
        (IsSupabase(r) /\ Done(r)) =>
            /\ reqs[r].response.code = 200
            /\ reqs[r].response.status = "connected"

\* C2 amended: when the data-store call resolves (with data or with an error
\* object) the answer is 200 with status "connected", the error object's
\* message in the error field; when the call rejects or throws the answer is
\* 500 with status "error" and the message in the error field.
C2_ConnectedWhenResolved ==
    \A r \in ReqIds :
        (IsSupabase(r) /\ Done(r)) =>
            /\ reqs[r].dbCalls = 1
            /\ reqs[r].outcome.kind \in {"data", "error"} =>
                  /\ reqs[r].response.code = 200
                  /\ reqs[r].response.status = "connected"
            /\ reqs[r].outcome.kind = "error" =>
                  /\ reqs[r].response.error = reqs[r].outcome.message
                  /\ reqs[r].response.error # UNDEF
            /\ reqs[r].outcome.kind = "data" =>
                  /\ reqs[r].response.error = UNDEF
                  /\ reqs[r].response.data = reqs[r].outcome.text
            /\ reqs[r].outcome.kind = "rejected" =>
                  /\ reqs[r].response.code = 500
                  /\ reqs[r].response.status = "error"
                  /\ reqs[r].response.error = reqs[r].outcome.message

C2_Witness ==
    \E r \in ReqIds :
        /\ IsSupabase(r) /\ Done(r)
        /\ reqs[r].outcome.kind = "error"
        /\ reqs[r].response.code = 200
        /\ reqs[r].response.status = "connected"
        /\ reqs[r].response.error = "relation test does not exist"

\* C3: a code-review request whose code is absent or empty is answered 400
\* with an error field in the step that receives it, and generateContent is
\* never called for it, whatever its language.
C3_MissingCode400 ==
    \A r \in ReqIds :
        (IsReview(r) /\ Active(r) /\ (reqs[r].body.code = UNDEF \/ reqs[r].body.code = "")) =>
            /\ Done(r)
            /\ reqs[r].response.code = 400
            /\ reqs[r].response.error # UNDEF
            /\ reqs[r].calls = <<>>
            /\ reqs[r].outcome = NoOutcome

C3_Witness ==
    \E r \in ReqIds :
        /\ IsReview(r) /\ Done(r)
        /\ reqs[r].body.code = ""
        /\ reqs[r].body.language = "python"
        /\ reqs[r].response.code = 400
        /\ reqs[r].calls = <<>>

\* A code-review request with a non-empty code and a language.
ReviewWithLanguage(r) ==
    /\ IsReview(r) /\ Active(r)
    /\ reqs[r].body.code \notin {UNDEF, ""}
    /\ reqs[r].body.language # UNDEF

CalledOnceWithCodeAndLanguage(r) ==
    /\ Len(reqs[r].calls) = 1
    /\ Contains(reqs[r].calls[1], reqs[r].body.code)
    /\ Contains(reqs[r].calls[1], reqs[r].body.language)

\* C4 as stated: ... and on success the answer is 200 with success true, a
\* NON-EMPTY review equal to the client's text, the language and a timestamp.
C4_ReviewNonEmpty ==
    \A r \in ReqIds :
        ReviewWithLanguage(r) =>
            /\ CalledOnceWithCodeAndLanguage(r)
            /\ (Done(r) /\ reqs[r].outcome.kind = "text") =>
                  /\ reqs[r].response.code = 200
                  /\ reqs[r].response.success = "true"
                  /\ reqs[r].response.review # ""
                  /\ reqs[r].response.review = reqs[r].outcome.text
                  /\ reqs[r].response.language = reqs[r].body.language
                  /\ reqs[r].response.timestamp \in Times

\* C4 amended: a code-review request with a non-empty code and a language
\* calls generateContent exactly once, with a prompt holding the code and the
\* language, and on success is answered 200 with success true, a review equal
\* to the client's text unmodified (empty when that text is empty), the
\* language and a timestamp.
C4_ReviewVerbatim ==
    \A r \in ReqIds :
        ReviewWithLanguage(r) =>
            /\ CalledOnceWithCodeAndLanguage(r)
            /\ (Done(r) /\ reqs[r].outcome.kind = "text") =>
                  /\ reqs[r].response.code = 200
                  /\ reqs[r].response.success = "true"
                  /\ reqs[r].response.review = reqs[r].outcome.text
                  /\ reqs[r].response.language = reqs[r].body.language
                  /\ reqs[r].response.timestamp \in Times
                  /\ reqs[r].response.error = UNDEF

C4_Witness ==
    \E r \in ReqIds :
        /\ ReviewWithLanguage(r) /\ Done(r)
        /\ reqs[r].body.code = "x=1"
        /\ reqs[r].body.language = "python"
        /\ reqs[r].outcome.text = "LGTM"
        /\ reqs[r].response.code = 200
        /\ reqs[r].response.review = "LGTM"

\* The generative-text call of request r failed.
GenFailed(r) ==
    /\ IsReview(r) \/ IsGemini(r)
    /\ Done(r)
    /\ reqs[r].outcome.kind \in {"rejected", "text_throws"}

\* The external call of request r, if it made one, succeeded.
NoOwnFailure(r) ==
    reqs[r].outcome.kind \in {"none", "text", "data", "error"}

\* C5: a failed generateContent call is answered 500 with an error field
\* (code-review) or status "error" (gemini-test); the process keeps
\* listening with its handles intact; and a request received after a 500
\* whose own call does not fail gets its normal answer (200, or 400 for a
\* code-review without code).
C5_FailureIsContained ==
    /\ \A r \in ReqIds :
         GenFailed(r) =>
            /\ reqs[r].response.code = 500
            /\ IsReview(r) => /\ reqs[r].response.error # UNDEF
                              /\ reqs[r].response.message = reqs[r].outcome.message
            /\ IsGemini(r) => /\ reqs[r].response.status = "error"
                              /\ reqs[r].response.error = reqs[r].outcome.message
    /\ failed =>
         /\ phase = "listening"
         /\ exitCode = -1
         /\ supabase # NULL
         /\ model # NULL
         /\ listenPort # 0
    /\ \A r \in ReqIds :
         (Done(r) /\ reqs[r].afterFail /\ NoOwnFailure(r)) =>
            reqs[r].response.code =
                IF IsReview(r) /\ reqs[r].body.code \in {UNDEF, ""} THEN 400 ELSE 200

C5_Witness ==
    \E q, r \in ReqIds :
        /\ GenFailed(q) /\ IsGemini(q) /\ reqs[q].response.code = 500
        /\ IsReview(r) /\ Done(r) /\ reqs[r].afterFail
        /\ reqs[r].response.code = 200
        /\ reqs[r].response.review = "LGTM"
        /\ phase = "listening"

\* C6: a code-review request with code and without language puts
\* "javascript" at both places of the prompt where the language goes, and in
\* the language field of the answer.
C6_DefaultLanguage ==
    \A r \in ReqIds :
        (IsReview(r) /\ Active(r) /\ reqs[r].body.code \notin {UNDEF, ""}
            /\ reqs[r].body.language = UNDEF) =>
            /\ Len(reqs[r].calls) = 1
            /\ reqs[r].calls[1][2] = "javascript"
            /\ reqs[r].calls[1][5] = "javascript"
            /\ Contains(reqs[r].calls[1], reqs[r].body.code)
            /\ (Done(r) /\ reqs[r].outcome.kind = "text") =>
                  /\ reqs[r].response.code = 200
                  /\ reqs[r].response.language = "javascript"

C6_Witness ==
    \E r \in ReqIds :
        /\ IsReview(r) /\ Done(r)
        /\ reqs[r].body.code = "x=1"
        /\ reqs[r].body.language = UNDEF
        /\ reqs[r].outcome.kind = "text"
        /\ reqs[r].response.language = "javascript"
        /\ Contains(reqs[r].calls[1], "javascript")

\* C7: once listening, the port is the documented default 3002 when PORT is
\* not set, and the value of PORT when it is set.
C7_DocumentedDefaultPort ==
    phase = "listening" =>
        /\ env.PORT = UNDEF => listenPort = DocumentedPort
        /\ env.PORT \notin {UNDEF, ""} => listenPort = PortNumber(env.PORT)

\* C8: the port is bound and requests are handled only after validation has
\* passed and the data-store client, then the generative-text client with
\* the model "gemini-pro", have been constructed, in that order; when a
\* constructor throws the process exits with status 1, binds no port and
\* handles no request.
C8_StartupOrder ==
    /\ (phase = "listening" \/ listenPort # 0 \/ \E r \in ReqIds : Active(r)) =>
         /\ ~BadConfig
         /\ phase = "listening"
         /\ supabase = <<env.SUPABASE_URL, env.SUPABASE_SERVICE_ROLE_KEY>>
         /\ model = <<env.GOOGLE_GEMINI_API_KEY, "gemini-pro">>
         /\ startupLog = << "Supabase client initialized successfully",
                            "Google Gemini AI initialized successfully",
                            "Server running" >>
    /\ model # NULL => supabase # NULL
    /\ ( \/ Contains(startupLog, "Failed to initialize Supabase client")
         \/ Contains(startupLog, "Failed to initialize Google Gemini AI") ) =>
         /\ phase = "exited"
         /\ exitCode = 1
         /\ listenPort = 0
         /\ NothingServed

C8_Witness ==
    /\ phase = "listening"
    /\ Len(startupLog) = 3
    /\ \E r \in ReqIds : Done(r) /\ reqs[r].response.code = 200

\* The prompt POST /api/gemini-test is to forward for request r.
WantedPrompt(r) ==
    IF reqs[r].body.prompt = UNDEF THEN "Hello, how are you?" ELSE reqs[r].body.prompt

\* C9: a gemini-test request calls generateContent exactly once, with the
\* body's prompt or "Hello, how are you?" when the field is absent, and on
\* success answers status "success", that prompt, and the client's text.
C9_GeminiTest ==
    \A r \in ReqIds :
        (IsGemini(r) /\ Active(r)) =>
            /\ reqs[r].calls = << <<WantedPrompt(r)>> >>
            /\ (Done(r) /\ reqs[r].outcome.kind = "text") =>
                  /\ reqs[r].response.code = 200
                  /\ reqs[r].response.status = "success"
                  /\ reqs[r].response.prompt = WantedPrompt(r)
                  /\ reqs[r].response.response = reqs[r].outcome.text

C9_Witness ==
    \E r \in ReqIds :
        /\ IsGemini(r) /\ Done(r)
        /\ reqs[r].body.prompt = UNDEF
        /\ reqs[r].outcome.text = "LGTM"
        /\ reqs[r].response.prompt = "Hello, how are you?"
        /\ reqs[r].response.response = "LGTM"

\* A response without the time it was built at.
Timeless(resp) == [resp EXCEPT !.timestamp = UNDEF]

\* The status code the request's own route, body and outcome call for.
OwnCode(r) ==
    CASE reqs[r].outcome.kind \in {"rejected", "text_throws"} -> 500
      [] IsReview(r) /\ reqs[r].body.code \in {UNDEF, ""} -> 400
      [] OTHER -> 200

\* C10: however the handlers interleave, a request has no response before
\* its handler finishes and exactly one once it has; two requests with the
\* same route, body and outcome get the same answer (up to the timestamp);
\* and every field of an answer that carries request data carries the
\* request's own: its status code, its language, its prompt, the text or the
\* message of its own external call.
C10_RequestsIndependent ==
    /\ \A r \in ReqIds :
         /\ reqs[r].sent = (IF Done(r) THEN 1 ELSE 0)
         /\ reqs[r].response = NoResponse <=> ~Done(r)
         /\ Len(reqs[r].calls) + reqs[r].dbCalls <= 1
    /\ \A q, r \in ReqIds :
         ( /\ Done(q) /\ Done(r)
           /\ reqs[q].route = reqs[r].route
           /\ reqs[q].body = reqs[r].body
           /\ reqs[q].outcome = reqs[r].outcome ) =>
            Timeless(reqs[q].response) = Timeless(reqs[r].response)
    /\ \A r \in ReqIds :
         Done(r) =>
            /\ reqs[r].response.code = OwnCode(r)
            /\ reqs[r].response.language \in
                  {UNDEF, IF reqs[r].body.language = UNDEF THEN "javascript"
                                                         ELSE reqs[r].body.language}
            /\ reqs[r].response.prompt \in {UNDEF, WantedPrompt(r)}
            /\ reqs[r].response.review \in {UNDEF, reqs[r].outcome.text}
            /\ reqs[r].response.response \in {UNDEF, reqs[r].outcome.text}
            /\ reqs[r].response.data \in {UNDEF, reqs[r].outcome.text}
            /\ (IsReview(r) /\ reqs[r].response.code = 500) =>
                  reqs[r].response.message = reqs[r].outcome.message
            /\ reqs[r].response.error \in
                  {UNDEF, "Code is required", "Failed to generate code review",
                   reqs[r].outcome.message}

C10_Witness ==
    /\ IsReview(1) /\ IsReview(2)
    /\ reqs[1].body.language = UNDEF /\ reqs[2].body.language = "python"
    /\ reqs[2].response.code = 500
    /\ reqs[1].response.code = 200
    /\ reqs[1].response.language = "javascript"
    /\ reqs[1].afterFail = FALSE
    /\ reqs[2].afterFail = FALSE

====
